---- MODULE Spec2Model ----
(***************************************************************************)
(* Model of the Xiaomi Pad 6 (pipa) device scripts:                        *)
(*   extract-files.py     the blob fixups and the extraction driver        *)
(*   extract-firmware.py  the firmware importer and its two .mk fragments  *)
(* A file is a sequence of atoms: a byte is written as its two hex digits   *)
(* ("9A"), a character of decoded text as a one-character string ("s").    *)
(***************************************************************************)
EXTENDS Integers, Sequences, FiniteSets, TLC

VARIABLES
    fixup,      \* the blob_fixups entry under test (its class name)
    obj_file,   \* the file at obj_file_path: [status, bytes]
    tools,      \* the external tools on PATH: absent, works or fails
    runs        \* one record per finished call of fixup.run, oldest first

fixupVars == <<fixup, obj_file, tools, runs>>

VARIABLES
    args,           \* the parsed command line of extract-files.py
    common_file,    \* whether sm8250-common/proprietary-files.txt exists
    pc,             \* where the driver is
    common_result,  \* how the common extraction went
    device_result,  \* how utils.run() went
    calls,          \* the calls made into extract_utils, in order
    printed,        \* what the driver printed, in order
    status          \* the exit status; -1 while the driver runs

driverVars == <<args, common_file, pc, common_result, device_result,
                calls, printed, status>>

VARIABLES
    firmware_list,  \* proprietary-firmware.txt: absent, or its lines
    android_mk,     \* vendor/xiaomi/pipa/Android.mk
    board_config,   \* vendor/xiaomi/pipa/BoardConfigVendor.mk
    radio_dir,      \* vendor/xiaomi/pipa/radio: (filename, content) pairs
    start,          \* the two fragment files before the first import
    imports,        \* the runs of extract-firmware.py so far
    last            \* what the last run was given, found, printed and returned

importerVars == <<firmware_list, android_mk, board_config, radio_dir, start,
                  imports, last>>

vars == <<fixupVars, driverVars, importerVars>>

(***************************************************************************)
(* Bounds of the model.                                                    *)
(***************************************************************************)
MaxChunks == 3
MaxRuns == 2
MaxImports == 2
MaxLines == 2

(***************************************************************************)
(* Sequence helpers: Python's `in`, bytes.replace / re.sub of a literal.   *)
(***************************************************************************)
MatchAt(s, p, i) ==
    /\ i + Len(p) - 1 <= Len(s)
    /\ \A k \in 1..Len(p) : s[i + k - 1] = p[k]

Contains(s, p) == \E i \in 1..(Len(s) + 1) : MatchAt(s, p, i)

Min(S) == CHOOSE x \in S : \A y \in S : x <= y

\* the replacement goes from one occurrence to the next one that starts
\* after it, so occurrences overlapping a replaced one are passed over
RECURSIVE ReplaceFrom(_, _, _, _)
ReplaceFrom(s, p, r, i) ==
    LET found == { j \in i..(Len(s) - Len(p) + 1) : MatchAt(s, p, j) }
    IN  IF found = {} THEN SubSeq(s, i, Len(s))
        ELSE SubSeq(s, i, Min(found) - 1) \o r
                \o ReplaceFrom(s, p, r, Min(found) + Len(p))

\* bytes.replace(p, r) and re.sub(literal p, r, s): every non-overlapping
\* occurrence, scanning left to right, in a single pass.
Replace(s, p, r) == ReplaceFrom(s, p, r, 1)

RECURSIVE Flatten(_)
Flatten(ss) == IF ss = <<>> THEN <<>> ELSE Head(ss) \o Flatten(Tail(ss))

(***************************************************************************)
(* ASCII: the bytes of the characters the scripts' literals use.           *)
(***************************************************************************)
AsciiTable ==
    { <<"0A", "\n">>, <<"20", " ">>, <<"2E", ".">>, <<"30", "0">>,
      <<"3A", ":">>, <<"5F", "_">>,
      <<"61", "a">>, <<"62", "b">>, <<"63", "c">>, <<"65", "e">>,
      <<"66", "f">>, <<"68", "h">>, <<"69", "i">>, <<"6C", "l">>,
      <<"6D", "m">>, <<"6E", "n">>, <<"6F", "o">>, <<"70", "p">>,
      <<"72", "r">>, <<"73", "s">>, <<"74", "t">>, <<"75", "u">>,
      <<"78", "x">>, <<"79", "y">> }

AsciiBytes == { e[1] : e \in AsciiTable }

Ord(c) == (CHOOSE e \in AsciiTable : e[2] = c)[1]

Chr(b) == (CHOOSE e \in AsciiTable : e[1] = b)[2]

\* b"..." : the bytes of an ASCII literal
Encode(text) == [i \in 1..Len(text) |-> Ord(text[i])]

Decode(bytes) == [i \in 1..Len(bytes) |-> Chr(bytes[i])]

\* a byte sequence open(path, 'r').read() can decode: the model's files hold
\* ASCII, the carriage return 0D and the byte FF, which no UTF-8 text holds
Decodable(bytes) == \A i \in 1..Len(bytes) : bytes[i] \in AsciiBytes \cup {"0D"}

RECURSIVE NewlinesFrom(_, _)
NewlinesFrom(bytes, i) ==
    LET crs == { j \in i..Len(bytes) : bytes[j] = "0D" }
        j == Min(crs)
    IN  IF crs = {} THEN SubSeq(bytes, i, Len(bytes))
        ELSE SubSeq(bytes, i, j - 1) \o <<"0A">>
                \o NewlinesFrom(bytes,
                      IF j < Len(bytes) /\ bytes[j + 1] = "0A" THEN j + 2 ELSE j + 1)

\* newline=None on reading: \r\n and a lone \r both become \n
UniversalNewlines(bytes) == NewlinesFrom(bytes, 1)

\* open(path, 'r').read(): decoded text with \r\n and \r read as \n
ReadText(bytes) == Decode(UniversalNewlines(bytes))

\* open(path, 'w').write(text) on Linux: \n is written as it is
WriteText(text) == Encode(text)

(***************************************************************************)
(* The file at obj_file_path and the tools on PATH.                        *)
(***************************************************************************)
FileStatus == {"ok", "readonly", "unreadable", "missing", "nopath"}

Readable(f) == f.status \in {"ok", "readonly"}

Writable(f) == f.status = "ok"

ToolStates == {"absent", "works", "fails"}

Tools == [sigscan : ToolStates, patchelf : ToolStates,
          strings : ToolStates, grep : ToolStates]

NoTools == [sigscan |-> "absent", patchelf |-> "absent",
            strings |-> "absent", grep |-> "absent"]

\* shutil.which(command) is not None
is_command_available(env, command) == env[command] # "absent"

Returned(f) == [ret |-> "True", file |-> f]

Raised(f) == [ret |-> "raise", file |-> f]

WithBytes(f, b) == [f EXCEPT !.bytes = b]

(***************************************************************************)
(* BatterySecretRcFixup                                                    *)
(***************************************************************************)
seclabel_line ==
    <<"s","e","c","l","a","b","e","l"," ","u",":","r",":",
      "b","a","t","t","e","r","y","s","e","c","r","e","t",":","s","0","\n">>

BatterySecretRcFixup(f, env) ==
    IF f.status = "nopath" THEN Returned(f)
    ELSE IF ~Readable(f) THEN Raised(f)            \* open(.., 'r')
    ELSE IF ~Decodable(f.bytes) THEN Raised(f)     \* f.read()
    ELSE IF ~Writable(f) THEN Raised(f)            \* open(.., 'w')
    ELSE Returned(WithBytes(f,
            WriteText(Replace(ReadText(f.bytes), seclabel_line, <<>>))))

(***************************************************************************)
(* CameraPostprocFixup                                                     *)
(***************************************************************************)
postproc_pattern == <<"9A", "0A", "00", "94">>

postproc_replacement == <<"1F", "20", "03", "D5">>

\* sigscan -p "9A 0A 00 94" -P "1F 20 03 D5" -f file, exit status 0
SigscanPatch(bytes) == Replace(bytes, postproc_pattern, postproc_replacement)

SigscanFallback(f, env) ==
    IF ~is_command_available(env, "sigscan") THEN Returned(f)
    ELSE IF env.sigscan = "fails" \/ ~Writable(f)
         THEN Returned(f)                          \* CalledProcessError: pass
    ELSE Returned(WithBytes(f, SigscanPatch(f.bytes)))

CameraPostprocFixup(f, env) ==
    IF f.status = "nopath" THEN Returned(f)
    ELSE IF Readable(f) /\ Contains(f.bytes, postproc_pattern) /\ Writable(f)
         THEN Returned(WithBytes(f,
                 Replace(f.bytes, postproc_pattern, postproc_replacement)))
    ELSE SigscanFallback(f, env)    \* pattern absent, or except Exception: pass

(***************************************************************************)
(* CameraQcomFixup                                                         *)
(***************************************************************************)
orig_pattern ==
    <<"73","74","5F","6C","69","63","65","6E","73","65","2E","6C","69","63">>

qcom_replacement ==
    <<"63","61","6D","65","72","61","5F","63","6E","66","2E","74","78","74">>

alt_pattern == Encode(<<"s","t","_","l","i","c","e","n","s","e",".","l","i","c">>)

alt_replacement == Encode(<<"c","a","m","e","r","a","_","c","n","f",".","t","x","t">>)

CameraQcomFixup(f, env) ==
    IF f.status = "nopath" THEN Returned(f)
    ELSE IF ~Readable(f) THEN Returned(f)          \* except Exception: pass
    ELSE IF Contains(f.bytes, orig_pattern)
         THEN IF Writable(f)
              THEN Returned(WithBytes(f,
                      Replace(f.bytes, orig_pattern, qcom_replacement)))
              ELSE Returned(f)
    ELSE IF Contains(f.bytes, alt_pattern) /\ Writable(f)
         THEN Returned(WithBytes(f,
                 Replace(f.bytes, alt_pattern, alt_replacement)))
    ELSE Returned(f)

(***************************************************************************)
(* WatermarkFixup                                                          *)
(***************************************************************************)
libpiex_shim ==
    Encode(<<"l","i","b","p","i","e","x","_","s","h","i","m",".","s","o">>)

\* subprocess.run(["strings", file], check=True): "found", "notfound", or
\* "error" for CalledProcessError / FileNotFoundError
StringsCheck(f, env) ==
    IF env.strings # "works" \/ ~Readable(f) THEN "error"
    ELSE IF Contains(f.bytes, libpiex_shim) THEN "found" ELSE "notfound"

\* subprocess.run(["grep", "-q", name, file]): returncode 0 is "found"
GrepCheck(f, env) ==
    IF env.grep = "works" /\ Readable(f) /\ Contains(f.bytes, libpiex_shim)
    THEN "found" ELSE "notfound"

\* patchelf --add-needed libpiex_shim.so file: the name enters the file's
\* string table; a failing patchelf raises CalledProcessError, caught
AddNeeded(f, env) ==
    IF env.patchelf = "works" /\ Writable(f)
    THEN Returned(WithBytes(f, f.bytes \o libpiex_shim))
    ELSE Returned(f)

WatermarkFixup(f, env) ==
    IF f.status = "nopath" THEN Returned(f)
    ELSE IF ~is_command_available(env, "patchelf") THEN Returned(f)
    ELSE IF StringsCheck(f, env) = "found" THEN Returned(f)
    ELSE IF StringsCheck(f, env) = "error" /\ GrepCheck(f, env) = "found"
         THEN Returned(f)
    ELSE AddNeeded(f, env)

(***************************************************************************)
(* AudioPrimaryFixup: bound to vendor/lib/hw/audio.primary.pipa.so in       *)
(* blob_fixups; its class body is not part of the script.  The routine is  *)
(* the one the design describes: a fixed ASCII library path is replaced by *)
(* a replacement padded with null bytes to the path's length.  The byte    *)
(* values are not given; the model takes a 4-byte path and a 2-byte name.  *)
(***************************************************************************)
audio_pattern == <<"2F", "6C", "69", "62">>

audio_name == <<"6C", "78">>

RECURSIVE PadNull(_, _)
PadNull(bytes, n) == IF Len(bytes) >= n THEN bytes ELSE PadNull(bytes \o <<"00">>, n)

\* the replacement written without its padding
AudioPrimaryUnpadded(f, env) ==
    IF f.status = "nopath" \/ ~Readable(f) \/ ~Writable(f) THEN Returned(f)
    ELSE Returned(WithBytes(f, Replace(f.bytes, audio_pattern, audio_name)))

AudioPrimaryFixup(f, env) ==
    IF f.status = "nopath" \/ ~Readable(f) \/ ~Writable(f) THEN Returned(f)
    ELSE Returned(WithBytes(f,
            Replace(f.bytes, audio_pattern,
                    PadNull(audio_name, Len(audio_pattern)))))

(***************************************************************************)
(* blob_fixups and the files the fixups are run on.                        *)
(***************************************************************************)
blob_fixups ==
    {"BatterySecretRcFixup", "AudioPrimaryFixup", "CameraPostprocFixup",
     "CameraQcomFixup", "WatermarkFixup"}

\* the pieces the model's files are made of, per fixup: the searched
\* pattern, its two halves, the replacement and other bytes
Chunks(fx) ==
    CASE fx = "BatterySecretRcFixup" ->
            { Encode(seclabel_line),
              Encode(SubSeq(seclabel_line, 1, 20)),
              Encode(SubSeq(seclabel_line, 21, 30)),
              <<"0D">>, <<"FF">> }
      [] fx = "AudioPrimaryFixup" ->
            { audio_pattern, SubSeq(audio_pattern, 1, 2),
              SubSeq(audio_pattern, 3, 4), <<"00">> }
      [] fx = "CameraPostprocFixup" ->
            { postproc_pattern, SubSeq(postproc_pattern, 1, 2),
              SubSeq(postproc_pattern, 3, 4), postproc_replacement, <<"00">> }
      [] fx = "CameraQcomFixup" ->
            { orig_pattern, SubSeq(orig_pattern, 1, 13),
              SubSeq(orig_pattern, 14, 14), qcom_replacement, <<"00">> }
      [] fx = "WatermarkFixup" ->
            { libpiex_shim, SubSeq(libpiex_shim, 1, 7), <<"00">> }

Contents(fx) ==
    { Flatten(cs) : cs \in UNION { [1..k -> Chunks(fx)] : k \in 0..MaxChunks } }

\* the tools a fixup consults; the others do not matter to it
ToolsOf(fx) ==
    CASE fx = "CameraPostprocFixup" ->
            { t \in Tools : t.patchelf = "absent" /\ t.strings = "absent"
                            /\ t.grep = "absent" }
      [] fx = "WatermarkFixup" -> { t \in Tools : t.sigscan = "absent" }
      [] OTHER -> { NoTools }

FixupsInit ==
    /\ fixup \in blob_fixups
    /\ obj_file \in [status : FileStatus, bytes : Contents(fixup)]
    /\ tools \in ToolsOf(fixup)
    /\ runs = <<>>

\* one call fixup.run(ctx, file_path, obj_file_path) by the extraction batch
Ran(result) ==
    /\ obj_file' = result.file
    /\ runs' = Append(runs, [ret |-> result.ret, before |-> obj_file,
                             after |-> result.file])
    /\ UNCHANGED <<fixup, tools, driverVars, importerVars>>

CanRun(fx) ==
    /\ fixup = fx
    /\ Len(runs) < MaxRuns
    /\ \A i \in 1..Len(runs) : runs[i].ret = "True"   \* a raise ends the batch

RunBatterySecretRcFixup ==
    /\ CanRun("BatterySecretRcFixup")
    /\ Ran(BatterySecretRcFixup(obj_file, tools))

RunAudioPrimaryFixup ==
    /\ CanRun("AudioPrimaryFixup")
    /\ Ran(AudioPrimaryFixup(obj_file, tools))

RunCameraPostprocFixup ==
    /\ CanRun("CameraPostprocFixup")
    /\ Ran(CameraPostprocFixup(obj_file, tools))

RunCameraQcomFixup ==
    /\ CanRun("CameraQcomFixup")
    /\ Ran(CameraQcomFixup(obj_file, tools))

RunWatermarkFixup ==
    /\ CanRun("WatermarkFixup")
    /\ Ran(WatermarkFixup(obj_file, tools))

FixupsNext ==
    \/ RunBatterySecretRcFixup
    \/ RunAudioPrimaryFixup
    \/ RunCameraPostprocFixup
    \/ RunCameraQcomFixup
    \/ RunWatermarkFixup

(***************************************************************************)
(* Properties of the fixups, checked under SpecFixups.                     *)
(***************************************************************************)
InProcessFixups ==
    {"BatterySecretRcFixup", "CameraPostprocFixup", "CameraQcomFixup"}

\* C1: running a patch routine a second time on the file its first run
\* produced is a no-op: the file after the second run equals the file after
\* the first.  Stated for the three fixups that replace in process.
C1_SecondRunIsNoOp ==
    fixup \in InProcessFixups =>
        \A i \in 2..Len(runs) : runs[i].after.bytes = runs[i - 1].after.bytes

\* C6: every patch routine reports success and never raises, whatever the
\* state of its file and of the external tools.
C6_EveryRunReturnsTrue ==
    \A i \in 1..Len(runs) : runs[i].ret = "True"

\* C10: the routine bound to vendor/lib/hw/audio.primary.pipa.so never
\* changes the length of the file it patches.
C10_LengthPreserved ==
    fixup = "AudioPrimaryFixup" =>
        \A i \in 1..Len(runs) :
            Len(runs[i].after.bytes) = Len(runs[i].before.bytes)

\* a run of the audio fixup that replaced the path at least twice in a file
C10_PathReplaced ==
    /\ fixup = "AudioPrimaryFixup"
    /\ \E i \in 1..Len(runs) :
          /\ Len(Replace(runs[i].before.bytes, audio_pattern, <<>>))
                <= Len(runs[i].before.bytes) - 2 * Len(audio_pattern)
          /\ ~Contains(runs[i].after.bytes, audio_pattern)
          /\ runs[i].after.bytes # runs[i].before.bytes

(***************************************************************************)
(* extract-files.py: the extraction driver.                                *)
(***************************************************************************)
dolby_patterns ==
    { <<"d","o","l","b","y">>, <<"D","o","l","b","y">>, <<"D","O","L","B","Y">>,
      <<"d","a","x">>, <<"D","A","X">>, <<"D","a","x">> }

is_dolby_file(file_path) == \E pattern \in dolby_patterns : Contains(file_path, pattern)

LowerTable ==
    { <<"A","a">>, <<"B","b">>, <<"D","d">>, <<"L","l">>, <<"O","o">>,
      <<"X","x">>, <<"Y","y">> }

LowerChar(c) ==
    IF \E e \in LowerTable : e[1] = c
    THEN (CHOOSE e \in LowerTable : e[1] = c)[2] ELSE c

\* str.lower()
Lower(text) == [i \in 1..Len(text) |-> LowerChar(text[i])]

\* --ignore-missing-dolby is store_true with default=True: always True
ignore_missing_dolby == TRUE

\* str(e) of the FileNotFoundError utils.run() raises: the missing file
Messages ==
    { <<"l","i","b",".","s","o">>,
      <<"l","i","b">> \o <<"d","o","l","b","y">>,
      <<"l","i","b">> \o <<"D","o","l","b","y">>,
      <<"D","O","L","B","Y">>,
      <<"D","o","L","b","Y">>,
      <<"l","i","b">> \o <<"d","a","x">>,
      <<"D","A","X">>,
      <<"D","a","x">> \o <<".","s","o">>,
      <<"d","A","x">> }

FileNotFoundError(msg) == [type |-> "FileNotFoundError", msg |-> msg]

NoError == [type |-> "ok", msg |-> <<>>]

NotRun == [type |-> "not run", msg |-> <<>>]

OtherError == [type |-> "Exception", msg |-> <<>>]

Say(out, quiet, line) == IF quiet THEN out ELSE Append(out, line)

Args == [section : BOOLEAN, skip_common : BOOLEAN, device_only : BOOLEAN,
         common_only : BOOLEAN, quiet : BOOLEAN]

DriverInit ==
    /\ args \in Args
    /\ common_file \in BOOLEAN
    /\ pc = "setup"
    /\ common_result = "none"
    /\ device_result = NotRun
    /\ calls = <<>>
    /\ printed = <<>>
    /\ status = -1

\* lines 202-223: the device module, unless --common-only
SetupDevice ==
    /\ pc = "setup"
    /\ pc' = "common"
    /\ printed' = IF args.common_only THEN printed
                  ELSE Say(printed, args.quiet, "Extracting")
    /\ UNCHANGED <<args, common_file, common_result, device_result, calls, status, fixupVars, importerVars>>

CommonRequested ==
    /\ ~(args.skip_common \/ args.device_only \/ args.section)
    /\ common_file

SkipCommon ==
    /\ pc = "common"
    /\ ~CommonRequested
    /\ pc' = "device"
    /\ UNCHANGED <<args, common_file, common_result, device_result, calls,
                   printed, status, fixupVars, importerVars>>

\* the handlers left out: the exception of the common extraction ends the run
CommonPropagates(result) ==
    [pc |-> IF result = "ok" THEN "device" ELSE "exited",
     status |-> IF result = "ok" THEN status ELSE 1,
     printed |-> <<>>]

\* what an exception of the common extraction does to the run: both
\* handlers are `except Exception`, print unless quiet, and pass
CommonHandler(result) ==
    [pc |-> "device", status |-> status,
     printed |-> IF result = "setup_error" THEN <<"Warning">>
                 ELSE IF result = "run_error" THEN <<"Note">> ELSE <<>>]

\* lines 226-264
ProcessCommon ==
    /\ pc = "common"
    /\ CommonRequested
    /\ \E result \in {"ok", "setup_error", "run_error"} :
          LET h == CommonHandler(result)
              out == Say(printed, args.quiet, "Processing common")
          IN  /\ common_result' = result
              /\ calls' = IF result = "setup_error" THEN calls
                          ELSE Append(calls, "common_utils.run")
              /\ printed' = IF args.quiet THEN out ELSE out \o h.printed
              /\ pc' = h.pc
              /\ status' = h.status
    /\ UNCHANGED <<args, common_file, device_result, fixupVars, importerVars>>

\* line 290: the test that decides whether a missing file ends the run
ExitOnMissing(msg) ==
    ~(ignore_missing_dolby /\ Contains(Lower(msg), <<"d","o","l","b","y">>))

\* lines 267-291
ExtractDevice ==
    /\ pc = "device"
    /\ ~args.common_only
    /\ \E e \in {NoError, OtherError} \cup { FileNotFoundError(m) : m \in Messages } :
          LET out1 == Say(printed, args.quiet, "Processing device")
              out2 == IF ignore_missing_dolby /\ is_dolby_file(e.msg) THEN out1
                      ELSE Say(out1, args.quiet, "Error")
          IN  /\ device_result' = e
              /\ calls' = Append(calls, "utils.run")
              /\ CASE e.type = "ok" ->
                        /\ printed' = out1
                        /\ pc' = "finish"
                        /\ status' = status
                   [] e.type = "Exception" ->      \* not caught: traceback
                        /\ printed' = out1
                        /\ pc' = "exited"
                        /\ status' = 1
                   [] e.type = "FileNotFoundError" /\ args.section ->
                        /\ printed' = Say(out2, args.quiet, "Attempting")
                        /\ pc' = "write_makefiles"
                        /\ status' = status
                   [] e.type = "FileNotFoundError" /\ ~args.section ->
                        /\ printed' = out2
                        /\ pc' = IF ExitOnMissing(e.msg) THEN "exited" ELSE "finish"
                        /\ status' = IF ExitOnMissing(e.msg) THEN 1 ELSE status
    /\ UNCHANGED <<args, common_file, common_result, fixupVars, importerVars>>

SkipDevice ==
    /\ pc = "device"
    /\ args.common_only
    /\ pc' = "finish"
    /\ UNCHANGED <<args, common_file, common_result, device_result, calls,
                   printed, status, fixupVars, importerVars>>

\* lines 284-287
WriteMakefiles ==
    /\ pc = "write_makefiles"
    /\ \E ok \in BOOLEAN :
          /\ calls' = Append(calls, IF ok THEN "write_makefiles"
                                    ELSE "write_makefiles failed")
          /\ pc' = IF ok THEN "finish" ELSE "exited"
          /\ status' = IF ok THEN status ELSE 1
    /\ UNCHANGED <<args, common_file, common_result, device_result, printed, fixupVars, importerVars>>

\* lines 293-294 and the end of the script
Finish ==
    /\ pc = "finish"
    /\ printed' = Say(printed, args.quiet, "Extraction completed")
    /\ pc' = "exited"
    /\ status' = 0
    /\ UNCHANGED <<args, common_file, common_result, device_result, calls, fixupVars, importerVars>>

DriverNext ==
    \/ SetupDevice
    \/ SkipCommon
    \/ ProcessCommon
    \/ ExtractDevice
    \/ SkipDevice
    \/ WriteMakefiles
    \/ Finish

(***************************************************************************)
(* Properties of the driver, checked under SpecDriver.                     *)
(***************************************************************************)
MissingFile == pc = "exited" /\ device_result.type = "FileNotFoundError"

WriteFailed == \E i \in 1..Len(calls) : calls[i] = "write_makefiles failed"

WriteAttempted ==
    \E i \in 1..Len(calls) : calls[i] \in {"write_makefiles", "write_makefiles failed"}

PrintedError == \E i \in 1..Len(printed) : printed[i] = "Error"

\* C7: when device extraction fails with a missing-file error whose name
\* is_dolby_file recognises, the driver prints no error for it and does not
\* exit non-zero on its account (a failing write_makefiles aside).
C7_DolbyMissingIsTolerated ==
    (MissingFile /\ is_dolby_file(device_result.msg) /\ ~WriteFailed) =>
        (status = 0 /\ ~PrintedError)

\* C8: on a missing-file error that is_dolby_file does not recognise: with a
\* section requested the driver attempts write_makefiles and exits non-zero
\* only if that fails; with no section it exits 1.  A run that reaches the
\* end of the script exits 0.
C8_OtherMissingFile ==
    /\ (MissingFile /\ ~is_dolby_file(device_result.msg)) =>
          IF args.section
          THEN WriteAttempted /\ (status # 0 <=> WriteFailed)
          ELSE status = 1
    /\ (pc = "exited" /\ Len(printed) > 0
           /\ printed[Len(printed)] = "Extraction completed") => status = 0

CommonFailed == common_result \in {"setup_error", "run_error"}

DeviceRan == \E i \in 1..Len(calls) : calls[i] = "utils.run"

\* C9: a failure of the common-device extraction is never fatal: the device
\* extraction still runs afterwards (unless --common-only), and a non-zero
\* exit status comes from the device extraction alone, as it would had the
\* common extraction succeeded.
C9_CommonFailureNotFatal ==
    (CommonFailed /\ pc = "exited") =>
        /\ ~args.common_only => DeviceRan
        /\ args.common_only => status = 0
        /\ status # 0 =>
              \/ device_result.type = "Exception"
              \/ device_result.type = "FileNotFoundError"
                    /\ (WriteFailed \/ (~args.section /\ ExitOnMissing(device_result.msg)))
        /\ status = 0 =>
              \/ args.common_only
              \/ device_result.type = "ok"
              \/ device_result.type = "FileNotFoundError"
                    /\ ~WriteFailed /\ (args.section \/ ~ExitOnMissing(device_result.msg))

\* a finished run whose common extraction failed and whose device
\* extraction then failed on a missing file
C9_CommonFailedThenDeviceRan ==
    /\ CommonFailed /\ pc = "exited" /\ DeviceRan
    /\ common_result = "run_error"
    /\ device_result.type = "FileNotFoundError"
    /\ status = 1

(***************************************************************************)
(* extract-firmware.py: text helpers.  Text is a sequence of characters;   *)
(* a long literal the script only writes or searches as a whole is one     *)
(* atom.                                                                   *)
(***************************************************************************)
Max(S) == CHOOSE x \in S : \A y \in S : x >= y

Whitespace == {" ", "\t", "\n", "\r"}

\* str.strip()
Strip(s) ==
    LET ink == { i \in 1..Len(s) : s[i] \notin Whitespace }
    IN  IF ink = {} THEN <<>> ELSE SubSeq(s, Min(ink), Max(ink))

\* str.split()[0] of a stripped, non-empty line
FirstToken(line) ==
    LET ws == { i \in 1..Len(line) : line[i] \in Whitespace }
    IN  IF ws = {} THEN line ELSE SubSeq(line, 1, Min(ws) - 1)

\* os.path.basename
Basename(path) ==
    LET seps == { i \in 1..Len(path) : path[i] = "/" }
    IN  IF seps = {} THEN path ELSE SubSeq(path, Max(seps) + 1, Len(path))

\* os.path.splitext(filename)[0]: cut at the last dot, unless only dots
\* precede it in the file name
SplitextRoot(filename) ==
    LET seps == { i \in 1..Len(filename) : filename[i] = "/" }
        sep  == IF seps = {} THEN 0 ELSE Max(seps)
        dots == { i \in (sep + 1)..Len(filename) : filename[i] = "." }
    IN  IF dots = {} THEN filename
        ELSE IF \E i \in (sep + 1)..(Max(dots) - 1) : filename[i] # "."
             THEN SubSeq(filename, 1, Max(dots) - 1)
        ELSE filename

\* str.split('\n')
RECURSIVE SplitLinesFrom(_, _)
SplitLinesFrom(text, i) ==
    LET nls == { j \in i..Len(text) : text[j] = "\n" }
    IN  IF nls = {} THEN << SubSeq(text, i, Len(text)) >>
        ELSE << SubSeq(text, i, Min(nls) - 1) >> \o SplitLinesFrom(text, Min(nls) + 1)

SplitLines(text) == SplitLinesFrom(text, 1)

\* the characters of the model in code point order; an atom stands where
\* its first character does
CodeOrder ==
    << "\t", "\n", "\r", " ", "#", "# Automatically generated file. DO NOT MODIFY",
       "# This file is generated by device/xiaomi/pipa/extract-firmware.py",
       ".", "/", "AB_OTA_PARTITIONS += ", "AB_OTA_PARTITIONS := ", "\\", "_",
       "a", "b", "c", "d", "e", "f", "g", "h", "i", "j", "k", "l", "m",
       "n", "o", "p", "q", "r", "s", "t", "u", "v", "w", "x", "y", "z" >>

CodePoint(c) == CHOOSE i \in 1..Len(CodeOrder) : CodeOrder[i] = c

\* a < b for two str values
StrLess(a, b) ==
    LET n == IF Len(a) < Len(b) THEN Len(a) ELSE Len(b)
        diff == { i \in 1..n : a[i] # b[i] }
    IN  IF diff = {} THEN Len(a) < Len(b)
        ELSE CodePoint(a[Min(diff)]) < CodePoint(b[Min(diff)])

RECURSIVE Sorted(_)
\* sorted(list of str)
Sorted(list) ==
    IF list = <<>> THEN <<>>
    ELSE LET least == CHOOSE i \in 1..Len(list) :
                         \A j \in 1..Len(list) : ~StrLess(list[j], list[i])
         IN  << list[least] >>
                \o Sorted(SubSeq(list, 1, least - 1) \o SubSeq(list, least + 1, Len(list)))

(***************************************************************************)
(* extract-firmware.py: the firmware list, the search and the copy.        *)
(***************************************************************************)
\* the first token is taken with its directories
ParseLineWithPath(raw) ==
    LET line == Strip(raw)
    IN  IF line = <<>> \/ line[1] = "#" THEN <<>>
        ELSE << FirstToken(line) >>

\* one line of proprietary-firmware.txt: the names it adds to firmware_files
ParseLine(raw) ==
    LET line == Strip(raw)
    IN  IF line = <<>> \/ line[1] = "#" THEN <<>>
        ELSE << Basename(FirstToken(line)) >>

\* lines 54-66
ParseFirmwareList(lines) == Flatten([ i \in 1..Len(lines) |-> ParseLine(lines[i]) ])

\* the source tree: the (basename, content) pairs of the files os.walk meets
InTree(tree, name) == \E e \in tree : e[1] = name

ContentOf(tree, name) == (CHOOSE e \in tree : e[1] = name)[2]

RECURSIVE Select(_, _, _)
Select(list, tree, present) ==
    IF list = <<>> THEN <<>>
    ELSE (IF InTree(tree, Head(list)) = present THEN << Head(list) >> ELSE <<>>)
            \o Select(Tail(list), tree, present)

\* lines 76-90
found_files(firmware_files, tree) == Select(firmware_files, tree, TRUE)

missing_files(firmware_files, tree) == Select(firmware_files, tree, FALSE)

\* hashlib.sha1 of a file's content, as hex digest
calculate_sha1(content) == << "sha1", content >>

\* lines 105-114: shutil.copy2 into the radio directory, overwriting
CopyAll(dir, found, tree) ==
    { e \in dir : \A i \in 1..Len(found) : found[i] # e[1] }
        \cup { << found[i], ContentOf(tree, found[i]) >> : i \in 1..Len(found) }

sha1_entries(found, tree) ==
    [ i \in 1..Len(found) |-> << found[i], calculate_sha1(ContentOf(tree, found[i])) >> ]

\* only a complete set of files counts as found
AllFound(firmware_files, found) == Len(found) = Len(firmware_files) /\ found # <<>>

\* line 97: the import goes on when at least one file was found
AnyFound(firmware_files, found) == found # <<>>

\* the build fragments are rewritten whenever a file was copied
UpdateAlways(update_mk, entries) == entries # << >>

\* line 121: if update_mk and sha1_entries
UpdateRequested(update_mk, entries) == update_mk /\ entries # << >>

(***************************************************************************)
(* Android.mk, the checksum manifest: a sequence of atoms, each a line or  *)
(* a piece of one.                                                         *)
(***************************************************************************)
Lit(text) == [kind |-> text, file |-> <<>>, sha |-> <<>>]

NL == Lit("\n")

\* the comment lines, LOCAL_PATH := $(call my-dir) and the blank lines of
\* the template, up to the ifeq line
mk_header == Lit("# Automatically generated file ... LOCAL_PATH := $(call my-dir)")

device_line == Lit("ifeq ($(TARGET_DEVICE),pipa)")

endif_line == Lit("endif")

\* $(call add-radio-file-sha1-checked,radio/{filename},{sha1})
Directive(entry) ==
    [kind |-> "$(call add-radio-file-sha1-checked,radio/", file |-> entry[1],
     sha |-> entry[2]]

Absent == [exists |-> FALSE, content |-> <<>>]

File(content) == [exists |-> TRUE, content |-> content]

RadioLines(entries) ==
    Flatten([ i \in 1..Len(entries) |-> << Directive(entries[i]), NL >> ])

\* lines 143-162 and 193-212: the template with the entries
NewAndroidMk(entries) ==
    << mk_header, device_line, NL, NL >> \o RadioLines(entries) \o << NL, endif_line >>

\* str.find: 0 when absent
Find(content, atom, from) ==
    LET at == { i \in from..Len(content) : content[i] = atom }
    IN  IF at = {} THEN 0 ELSE Min(at)

\* a second conditional block written after the existing content
AppendBlock(mk_content, entries) ==
    mk_content \o << NL >> \o NewAndroidMk(entries)

\* lines 166-189: the entries go in right after the device line
InsertRadioSection(mk_content, entries) ==
    LET device_pos == Find(mk_content, device_line, 1)
    IN  SubSeq(mk_content, 1, device_pos) \o << NL, NL >> \o RadioLines(entries)
            \o SubSeq(mk_content, device_pos + 1, Len(mk_content))

\* lines 125-212
UpdateAndroidMk(mk, entries) ==
    IF ~mk.exists \/ Find(mk.content, device_line, 1) = 0
    THEN File(NewAndroidMk(entries))
    ELSE IF Find(mk.content, endif_line, Find(mk.content, device_line, 1)) # 0
         THEN File(InsertRadioSection(mk.content, entries))
    ELSE File(NewAndroidMk(entries))       \* Malformed Android.mk

(***************************************************************************)
(* BoardConfigVendor.mk, the partition set: text, character by character.  *)
(***************************************************************************)
board_header ==
    << "# Automatically generated file. DO NOT MODIFY", "\n", "#", "\n",
       "# This file is generated by device/xiaomi/pipa/extract-firmware.py",
       "\n", "\n" >>

\* the text AB_OTA_PARTITIONS += \ up to and with its backslash
ab_ota == << "AB_OTA_PARTITIONS += ", "\\" >>

Indent == << " ", " ", " ", " " >>

\* lines 220-223
partition_names(entries) == [ i \in 1..Len(entries) |-> SplitextRoot(entries[i][1]) ]

Last(list) == list[Len(list)]

\* lines 238-242: one line per partition; the test for the last item
\* compares values
FreshLines(names) ==
    Flatten([ i \in 1..Len(names) |->
        IF names[i] = Last(names) THEN Indent \o names[i]
        ELSE Indent \o names[i] \o << " ", "\\", "\n" >> ])

\* lines 230-246
NewBoardConfig(names) ==
    board_header \o ab_ota \o << "\n" >> \o FreshLines(Sorted(names))

\* lines 292-296
AppendedLines(names) ==
    Flatten([ i \in 1..Len(names) |->
        IF names[i] = Last(names) THEN << "\n" >> \o Indent \o names[i]
        ELSE << "\n" >> \o Indent \o names[i] \o << " ", "\\" >> ])

\* lines 291-300
AppendBoardConfig(content, names) ==
    content \o << "\n" >> \o ab_ota \o AppendedLines(Sorted(names)) \o << "\n" >>

\* re.search(r'AB_OTA_PARTITIONS \+= \\(.*?)(?=\n\n|\n[^\s]|\Z)', .., re.DOTALL):
\* where the match starts, 0 if there is none
MatchStart(content) ==
    LET at == { i \in 1..Len(content) : MatchAt(content, ab_ota, i) }
    IN  IF at = {} THEN 0 ELSE Min(at)

\* the lookahead (?=\n\n|\n[^\s]|\Z) at position q
Lookahead(content, q) ==
    \/ q = Len(content) + 1
    \/ /\ q < Len(content)
       /\ content[q] = "\n"
       /\ content[q + 1] = "\n" \/ content[q + 1] \notin Whitespace

\* one past the end of the match: the lazy group stops at the first
\* position where the lookahead holds
MatchEnd(content) ==
    Min({ q \in (MatchStart(content) + Len(ab_ota))..(Len(content) + 1) :
            Lookahead(content, q) })

\* ab_ota_match.group(0)
Group0(content) == SubSeq(content, MatchStart(content), MatchEnd(content) - 1)

\* ab_ota_match.group(1)
Group1(content) ==
    SubSeq(content, MatchStart(content) + Len(ab_ota), MatchEnd(content) - 1)

\* lines 264-268, for one line of the group
ParsePartition(raw) ==
    LET line == Strip(raw)
    IN  IF line = <<>> THEN <<>>
        ELSE IF Last(line) # "\\" THEN << line >>
        ELSE << Strip(SubSeq(line, 1, Len(line) - 1)) >>

\* lines 262-268
existing_partitions(content) ==
    LET lines == SplitLines(Group1(content))
    IN  Flatten([ i \in 1..Len(lines) |-> ParsePartition(lines[i]) ])

InList(list, x) == \E i \in 1..Len(list) : list[i] = x

RECURSIVE Without(_, _)
\* [p for p in names if p not in existing]
Without(names, existing) ==
    IF names = <<>> THEN <<>>
    ELSE (IF InList(existing, Head(names)) THEN <<>> ELSE << Head(names) >>)
            \o Without(Tail(names), existing)

\* line 271
new_partitions(names, existing) == Without(names, existing)

\* lines 275-280
NewSection(names) ==
    LET text == ab_ota \o Flatten([ i \in 1..Len(names) |->
                    << "\n" >> \o Indent \o names[i] \o << " ", "\\" >> ])
    IN  SubSeq(text, 1, Len(text) - 2)

\* lines 257-288
MergeBoardConfig(content, names) ==
    LET existing == existing_partitions(content)
        new == new_partitions(names, existing)
    IN  IF new = <<>> THEN content
        ELSE Replace(content, Group0(content), NewSection(Sorted(existing \o new)))

\* lines 225-302
UpdateBoardConfig(board, names) ==
    IF ~board.exists \/ Len(board.content) = 0 THEN File(NewBoardConfig(names))
    ELSE IF MatchStart(board.content) # 0
         THEN File(MergeBoardConfig(board.content, names))
    ELSE File(AppendBoardConfig(board.content, names))

(***************************************************************************)
(* extract-firmware.py: one run of the script.                             *)
(***************************************************************************)
boot_img == << "b", "o", "o", "t", ".", "i", "m", "g" >>

modem_img == << "m", "o", "d", "e", "m", ".", "i", "m", "g" >>

modem_bin == << "m", "o", "d", "e", "m", ".", "b", "i", "n" >>

radio_img == << "r", "a", "d", "i", "o", ".", "i", "m", "g" >>

comment_line == << "#", " ", "c" >>

path_line == << " ", "f", "w", "/" >> \o radio_img \o << " ", "x", "/", "y", "\n" >>

\* the proprietary-firmware.txt files of the model
FirmwareLists ==
    { Absent,
      File(<< >>),
      File(<< comment_line, << >> >>),
      File(<< modem_img >>),
      File(<< boot_img, radio_img >>),
      File(<< modem_img, modem_bin >>),
      File(<< boot_img, comment_line, << "\n" >>, path_line >>) }

\* the extracted ROM directories of the model
SourceTrees ==
    { {},
      { << boot_img, "v1" >> },
      { << modem_img, "v1" >>, << modem_bin, "v2" >> },
      { << boot_img, "v2" >>, << radio_img, "v1" >> },
      { << boot_img, "v1" >>, << modem_img, "v2" >>, << radio_img, "v2" >> } }

NoSource == { << << >>, "no source argument" >> }

boot == << "b", "o", "o", "t" >>

radio == << "r", "a", "d", "i", "o" >>

\* the Android.mk files an import may meet
StartAndroidMk ==
    { Absent,
      File(<< Lit("# written by hand"), NL >>),
      File(<< mk_header, device_line, NL >>),
      File(<< mk_header, device_line, NL, NL, endif_line >>),
      File(<< device_line, NL, endif_line, NL, device_line, NL, endif_line >>) }

\* the BoardConfigVendor.mk files an import may meet; a list in them is
\* sorted and names no partition twice
StartBoardConfig ==
    { Absent,
      File(<< >>),
      File(<< "#", "\n" >>),
      File(NewBoardConfig(<< boot, radio >>)),
      File(NewBoardConfig(<< boot >>) \o << "\n", "\n", "#", "\n" >>) }

NotYet ==
    [source |-> {}, update_mk |-> FALSE, firmware_files |-> << >>,
     found |-> << >>, warning |-> << >>, copied |-> FALSE, updated |-> FALSE,
     exit |-> -1, mk_before |-> Absent, board_before |-> Absent]

ImporterInit ==
    /\ firmware_list \in FirmwareLists
    /\ android_mk \in StartAndroidMk
    /\ board_config \in StartBoardConfig
    /\ radio_dir = {}
    /\ start = [android_mk |-> android_mk, board_config |-> board_config]
    /\ imports = 0
    /\ last = NotYet

\* lines 311-319 and extract_firmware_images
Import ==
    /\ imports < MaxImports
    /\ \E source \in SourceTrees \cup { NoSource }, no_mk_update \in BOOLEAN :
          LET firmware_files == IF firmware_list.exists
                                THEN ParseFirmwareList(firmware_list.content)
                                ELSE << >>
              searched == source # NoSource /\ firmware_files # << >>
              found    == IF searched THEN found_files(firmware_files, source) ELSE << >>
              missing  == IF searched THEN missing_files(firmware_files, source) ELSE << >>
              success  == searched /\ AnyFound(firmware_files, found)
              entries  == sha1_entries(found, source)
              update   == success /\ UpdateRequested(~no_mk_update, entries)
          IN  /\ radio_dir' = IF success THEN CopyAll(radio_dir, found, source)
                              ELSE radio_dir
              /\ android_mk' = IF update THEN UpdateAndroidMk(android_mk, entries)
                               ELSE android_mk
              /\ board_config' = IF update
                                 THEN UpdateBoardConfig(board_config, partition_names(entries))
                                 ELSE board_config
              /\ last' = [source |-> source, update_mk |-> ~no_mk_update,
                          firmware_files |-> firmware_files, found |-> found,
                          warning |-> missing, copied |-> success,
                          updated |-> update,
                          exit |-> IF success THEN 0 ELSE 1,
                          mk_before |-> android_mk, board_before |-> board_config]
    /\ imports' = imports + 1
    /\ UNCHANGED <<firmware_list, start, fixupVars, driverVars>>

ImporterNext == Import

abc_img == << "a", "b", "c", ".", "i", "m", "g" >>

def_img == << "d", "e", "f", ".", "i", "m", "g" >>

hash_comment == << "#", " ", "c", "o", "m", "m", "e", "n", "t" >>

def_img_ignored ==
    def_img \o << " ", "p", "a", "t", "h", "/", "i", "g", "n", "o", "r", "e", "d" >>

\* the lines a proprietary-firmware.txt of the parser runs is made of
ListLineKinds ==
    { abc_img, hash_comment, << >>, def_img_ignored,
      << " ", "\t", "#", "x", "\n" >>,
      << "\t", "f", "w", "/" >> \o abc_img \o << " ", "\n" >> }

\* a list with a name, a comment, a blank line and a name with more text
mixed_list == << abc_img, hash_comment, << >>, def_img_ignored >>

\* every proprietary-firmware.txt of at most MaxLines such lines, and the
\* mixed list
ParserInit ==
    /\ firmware_list \in
          { File(ls) : ls \in { mixed_list }
                \cup UNION { [1..n -> ListLineKinds] : n \in 0..MaxLines } }
    /\ android_mk = Absent
    /\ board_config = Absent
    /\ radio_dir = {}
    /\ start = [android_mk |-> android_mk, board_config |-> board_config]
    /\ imports = 0
    /\ last = NotYet

(***************************************************************************)
(* Properties of the importer, checked under SpecImporter.                 *)
(***************************************************************************)
IsDirective(atom) == atom.kind = Directive(<< << >>, << >> >>).kind

DeviceLines(mk) ==
    Cardinality({ i \in 1..Len(mk.content) : mk.content[i] = device_line })

\* C2: starting from an absent Android.mk, after any sequence of imports
\* the manifest holds at most one add-radio-file-sha1-checked directive per
\* firmware filename.
C2_OneDirectivePerFile ==
    start.android_mk = Absent =>
        \A i, j \in 1..Len(android_mk.content) :
            ( /\ IsDirective(android_mk.content[i])
              /\ IsDirective(android_mk.content[j])
              /\ android_mk.content[i].file = android_mk.content[j].file ) => i = j

\* the last import merged its partition names into an existing list
Merged ==
    /\ last.updated
    /\ last.board_before.exists
    /\ MatchStart(last.board_before.content) # 0

NoDuplicate(list) == \A i, j \in 1..Len(list) : list[i] = list[j] => i = j

InOrder(list) == \A i \in 1..(Len(list) - 1) : ~StrLess(list[i + 1], list[i])

\* C3: when an import merges its partition names into an existing
\* AB_OTA_PARTITIONS list, every name of the prior list is still listed, no
\* name is listed twice, and the list is in lexicographic order.
C3_MergeKeepsSortedSet ==
    Merged =>
        LET before == existing_partitions(last.board_before.content)
            after  == existing_partitions(board_config.content)
        IN  /\ \A i \in 1..Len(before) : InList(after, before[i])
            /\ NoDuplicate(after)
            /\ InOrder(after)

\* C4 as claimed: after an import that updated the build fragments, whatever
\* Android.mk held before, it holds exactly one opening line
\* ifeq ($(TARGET_DEVICE),pipa).
C4_OneDeviceBlock ==
    last.updated => DeviceLines(android_mk) = 1

\* C4 as amended: after an import that updated the build fragments,
\* Android.mk holds exactly one opening line for the device, provided it
\* was absent or held at most one such line before the first import.
C4_OneDeviceBlockKept ==
    (last.updated /\ DeviceLines(start.android_mk) <= 1) =>
        DeviceLines(android_mk) = 1

\* two updating imports into the block Android.mk started with
C4_InsertedTwice ==
    /\ imports = 2
    /\ last.updated
    /\ DeviceLines(start.android_mk) = 1
    /\ DeviceLines(last.mk_before) = 1
    /\ Find(last.mk_before.content, endif_line, Find(last.mk_before.content, device_line, 1)) # 0
    /\ Cardinality({ i \in 1..Len(android_mk.content) :
                        IsDirective(android_mk.content[i]) }) >= 2
    /\ DeviceLines(android_mk) = 1

Expected == { last.firmware_files[i] : i \in 1..Len(last.firmware_files) }

Present ==
    IF last.source = NoSource THEN {}
    ELSE { name \in Expected : InTree(last.source, name) }

Warned == { last.warning[i] : i \in 1..Len(last.warning) }

\* C5: when some expected files are found and some are not, the importer
\* copies every found file, warns of exactly the files not found and exits
\* 0; it exits 1 only when no expected file is found (the list being absent
\* or empty included).
C5_PartialImportSucceeds ==
    imports > 0 =>
        /\ (Present # {} /\ Present # Expected) =>
              /\ last.exit = 0
              /\ \A name \in Present :
                    << name, ContentOf(last.source, name) >> \in radio_dir
              /\ Warned = Expected \ Present
        /\ last.exit = 1 => Present = {}
        /\ last.exit \in {0, 1}

\* an import that found one of its two expected files
C5_OneOfTwoFound ==
    /\ imports > 0
    /\ Cardinality(Expected) = 2
    /\ Cardinality(Present) = 1
    /\ Cardinality(Warned) = 1
    /\ last.exit = 0

\* C11: an import run with --no-mk-update, or one that fails (no file
\* found, list missing or empty, no source argument), leaves Android.mk and
\* BoardConfigVendor.mk as they were; with --no-mk-update the found files
\* are still copied.
C11_FragmentsOnlyOnUpdate ==
    imports > 0 =>
        /\ (~last.update_mk \/ last.exit = 1) =>
              /\ android_mk = last.mk_before
              /\ board_config = last.board_before
        /\ (~last.update_mk /\ Present # {}) =>
              /\ last.exit = 0
              /\ \A name \in Present :
                    << name, ContentOf(last.source, name) >> \in radio_dir

\* an import with --no-mk-update that copied a file no fragment lists yet
C11_CopiedWithoutUpdate ==
    /\ imports > 0
    /\ ~last.update_mk
    /\ last.exit = 0
    /\ radio_dir # {}
    /\ android_mk = Absent
    /\ board_config = Absent

\* the lines of the partition list in a file: those after the line
\* AB_OTA_PARTITIONS += \ up to the first blank line or the end of the file
ListLines(content) ==
    LET from  == MatchStart(content) + Len(ab_ota) + 1
        lines == SplitLines(SubSeq(content, from, Len(content)))
        blank == { i \in 1..Len(lines) : Strip(lines[i]) = << >> }
    IN  IF blank = {} THEN lines ELSE SubSeq(lines, 1, Min(blank) - 1)

Marked(line) == Strip(line) # << >> /\ Last(Strip(line)) = "\\"

\* the entry a line of the list holds, without its continuation marker
EntryOf(line) ==
    IF Marked(line) THEN Strip(SubSeq(Strip(line), 1, Len(Strip(line)) - 1))
    ELSE Strip(line)

WellFormedList(content) ==
    LET lines == ListLines(content)
    IN  /\ MatchStart(content) # 0
        /\ content[MatchStart(content) + Len(ab_ota)] = "\n"
        /\ Len(lines) >= 1
        /\ \A i \in 1..Len(lines) :
              /\ EntryOf(lines[i]) # << >>
              /\ \A k \in 1..Len(EntryOf(lines[i])) :
                    EntryOf(lines[i])[k] \notin Whitespace \cup {"\\"}
              /\ Marked(lines[i]) <=> i < Len(lines)

\* C12: after an import that updated the build fragments, the partition
\* list of BoardConfigVendor.mk has each entry on its own line, a
\* continuation marker after every entry but the last and none after the
\* last; merging modem into the list boot, radio writes boot, modem, radio.
C12_ListWellFormed ==
    last.updated =>
        /\ WellFormedList(board_config.content)
        /\ ( /\ last.board_before = File(NewBoardConfig(<< boot, radio >>))
             /\ last.found = << modem_img >> ) =>
                [ i \in 1..Len(ListLines(board_config.content)) |->
                    EntryOf(ListLines(board_config.content)[i]) ]
                  = << boot, SplitextRoot(modem_img), radio >>

IsBlank(line) == \A i \in 1..Len(line) : line[i] \in Whitespace

FirstInk(line) == Min({ i \in 1..Len(line) : line[i] \notin Whitespace })

IsComment(line) == ~IsBlank(line) /\ line[FirstInk(line)] = "#"

\* the basename of the first whitespace-delimited token of a line
RequiredName(line) ==
    LET stop == Max({ j \in FirstInk(line)..Len(line) :
                        \A k \in FirstInk(line)..j : line[k] \notin Whitespace })
        cut  == Max({ FirstInk(line) - 1 }
                      \cup { j \in FirstInk(line)..stop : line[j] = "/" })
    IN  SubSeq(line, cut + 1, stop)

\* C13: the expected-file list parses to one name per line that is neither
\* blank nor a comment, in line order, each the basename of the line's
\* first token; abc.img, # comment, (blank), def.img path/ignored parses to
\* abc.img, def.img.
C13_OneNamePerLine ==
    (imports > 0 /\ firmware_list.exists) =>
        LET lines == firmware_list.content
            names == last.firmware_files
            kept  == { i \in 1..Len(lines) :
                         ~IsBlank(lines[i]) /\ ~IsComment(lines[i]) }
        IN  /\ Len(names) = Cardinality(kept)
            /\ \A i \in kept :
                  names[Cardinality({ j \in kept : j <= i })] = RequiredName(lines[i])
            /\ lines = mixed_list => names = << abc_img, def_img >>

\* the mixed list, parsed by an import
C13_MixedListParsed ==
    /\ imports > 0
    /\ firmware_list = File(mixed_list)
    /\ IsComment(mixed_list[2])
    /\ IsBlank(mixed_list[3])
    /\ last.firmware_files = << abc_img, def_img >>

(***************************************************************************)
(* The specifications: one per script part, the other parts at rest.       *)
(***************************************************************************)
FixupsIdle ==
    /\ fixup = "none"
    /\ obj_file = [status |-> "nopath", bytes |-> <<>>]
    /\ tools = NoTools
    /\ runs = <<>>

DriverIdle ==
    /\ args = [section |-> FALSE, skip_common |-> FALSE, device_only |-> FALSE,
               common_only |-> FALSE, quiet |-> FALSE]
    /\ common_file = FALSE
    /\ pc = "idle"
    /\ common_result = "none"
    /\ device_result = NotRun
    /\ calls = <<>>
    /\ printed = <<>>
    /\ status = -1

ImporterIdle ==
    /\ firmware_list = Absent
    /\ android_mk = Absent
    /\ board_config = Absent
    /\ radio_dir = {}
    /\ start = [android_mk |-> Absent, board_config |-> Absent]
    /\ imports = 0
    /\ last = NotYet

InitFixups == DriverIdle /\ ImporterIdle /\ FixupsInit

SpecFixups == InitFixups /\ [][FixupsNext]_vars

InitDriver == FixupsIdle /\ ImporterIdle /\ DriverInit

SpecDriver == InitDriver /\ [][DriverNext]_vars

InitImporter == FixupsIdle /\ DriverIdle /\ ImporterInit

SpecImporter == InitImporter /\ [][ImporterNext]_vars

InitParser == FixupsIdle /\ DriverIdle /\ ParserInit

SpecParser == InitParser /\ [][ImporterNext]_vars

====
